---- MODULE Spec2Model ----
(***************************************************************************)
(* Model of the sync engine of onedrive-ubuntu (src/src/sync.rs) together  *)
(* with the tasks of the GUI and the tray that drive it through the shared *)
(* Arc<Mutex<SyncManager>> (src/src/gui.rs, src/src/tray.rs).              *)
(*                                                                         *)
(* State: the local sync folder, the remote drive, the two sqlite tables   *)
(* (files, sync_log), the SyncStatus, the wall clock, the owner of the     *)
(* SyncManager mutex, and for each task its position in sync() and the     *)
(* local variables of its cycle.                                           *)
(***************************************************************************)
EXTENDS Integers, Sequences, FiniteSets, TLC

\* ------------------------------------------------------------------ bounds

\* Relative paths of regular files under the sync root / the drive root.
Paths == {"a", "b", ".c"}

\* relative_path_str.starts_with('.'), on the paths of the model.
StartsWithDot(p) == p \in {".c"}

\* The paths on which files exist and change: ordinary files only, or one
\* ordinary file and one hidden file.
Visible == {p \in Paths : ~StartsWithDot(p)}
HiddenScope == {"a", ".c"}

\* The bytes a file may hold; 0 stands for "no such file".
Contents == {1, 2}

\* The wall clock (seconds since the epoch) runs from 0 to MaxTime.
MaxTime == 1

\* Number of events of the environment in one behaviour: changes made by
\* the user or by other devices, and failures of an I/O operation.
MaxEnv == 2

\* Number of calls of sync() in one behaviour.
MaxCalls == 2

\* The tasks that call sync(): the auto-sync task of the tray and the tasks
\* spawned by the GUI (initial sync) and by "Sync Now".
AutoTask == "auto"
Callers == {"initial", "manual"}
Tasks == {AutoTask} \cup Callers

\* The loop of TrayManager::run, which reads the status for the tooltip.
TrayLoop == "tray_loop"
\* The frame callback OneDriveApp::update of the GUI, which reads the status.
GuiUpdate == "gui_update"
Procs == Tasks \cup {TrayLoop, GuiUpdate}

Times == 0..MaxTime

VARIABLES
    local,      \* [Paths -> Contents \cup {0}]: bytes of each file of the sync folder
    remote,     \* [Paths -> RemoteFile]: the drive as the server holds it
    files,      \* [Paths -> FileRow]: the table "files" (the catalog)
    sync_log,   \* sequence of rows of the table "sync_log"
    status,     \* the SyncStatus behind self.status
    now,        \* SystemTime::now() in seconds
    mgr,        \* owner of the Arc<Mutex<SyncManager>>: a task or "free"
    pc,         \* [Procs -> position of the task]
    cyc,        \* [Tasks -> local variables of the task's sync()/perform_sync()]
    result,     \* [Tasks -> what the task's last sync() returned]
    api_calls,  \* the remote operations the engine has invoked so far
    env,        \* number of events of the environment so far
    calls,      \* number of calls of sync() so far
    quiet,      \* history: "changed" | "cycle" | "settled" (see EnvChange, SyncEnd)
    up,         \* the call of OneDriveAPI::upload_file under way
    lock_file,  \* content of onedrive-ubuntu.lock: a pid, or 0 when there is no file
    inst        \* [Pids -> the process of that pid in main()]

\* The variables of the sync engine and its observers.
engine_vars == <<local, remote, files, sync_log, status, now, mgr, pc, cyc,
                 result, api_calls, env, calls, quiet>>

\* The variables of the API client and of the start of the program.
other_vars == <<up, lock_file, inst>>

vars == <<engine_vars, other_vars>>

\* ------------------------------------------------------------------ data

\* A file of the drive. mtime is lastModifiedDateTime, set by the server.
NoRemote == [present |-> FALSE, content |-> 0, mtime |-> 0]
RemoteFile(c, t) == [present |-> TRUE, content |-> c, mtime |-> t]

\* The id the server gives the item at path p.
ItemId(p) == <<"id", p>>
NoId == <<>>

\* DriveItem as returned by list_items / upload_file.
NoItem == [present |-> FALSE, id |-> NoId, last_modified |-> 0]
DriveItem(p, t) == [present |-> TRUE, id |-> ItemId(p), last_modified |-> t]

\* FileRecord: a row of "files" or an entry of the local snapshot. The
\* columns size and modified are written but never read by the engine.
NoRow == [present |-> FALSE, hash |-> 0, onedrive_id |-> NoId, last_synced |-> 0]
FileRecord(h, id, t) == [present |-> TRUE, hash |-> h, onedrive_id |-> id, last_synced |-> t]

\* hex(SHA-256(bytes)): injective on the contents of the model, never "".
Sha256(c) == 100 + c
EmptyHash == 0

NoneTime == -1

\* SyncStatus::default()
DefaultStatus ==
    [is_syncing |-> FALSE, last_sync |-> NoneTime, files_uploaded |-> 0,
     files_downloaded |-> 0, files_deleted |-> 0, sync_errors |-> <<>>,
     total_files |-> 0, current_operation |-> <<"Ready">>, sync_progress |-> 0]

\* SyncAction
Upload(p) == [kind |-> "Upload", path |-> p]
Download(p) == [kind |-> "Download", path |-> p]
RemoveFromDatabase(p) == [kind |-> "RemoveFromDatabase", path |-> p]

\* All orders in which a HashMap may yield the keys S.
RECURSIVE Orders(_)
Orders(S) ==
    IF S = {} THEN {<<>>}
    ELSE UNION {{<<p>> \o o : o \in Orders(S \ {p})} : p \in S}

\* parse_iso_datetime ignores its argument and returns the current time.
parse_iso_datetime(datetime_str, t) == t

\* ------------------------------------------------------------------ planner

\* The three loops of determine_sync_actions, one predicate per loop body.
\* l: local snapshot, r: remote snapshot, s: rows of "files", t: the clock.
NeedsUpload(p, l, r, s) ==
    /\ l[p].present
    /\ IF s[p].present THEN l[p].hash # s[p].hash ELSE ~r[p].present

\* Mutant of NeedsDownload: a cataloged file that is missing locally is
\* taken for deleted by the user and not fetched again.
NeedsDownloadUncataloged(p, l, r, s, t) ==
    /\ r[p].present
    /\ IF ~l[p].present THEN ~s[p].present
       ELSE IF s[p].present
            THEN parse_iso_datetime(r[p].last_modified, t) > s[p].last_synced
            ELSE FALSE

NeedsDownload(p, l, r, s, t) ==
    /\ r[p].present
    /\ IF ~l[p].present THEN TRUE
       ELSE IF s[p].present
            THEN parse_iso_datetime(r[p].last_modified, t) > s[p].last_synced
            ELSE FALSE

\* Mutant of NeedsRemove: rows are never forgotten.
NeedsRemoveNever(p, l, r, s) == FALSE

\* Mutant of NeedsRemove: the remote snapshot is not consulted.
NeedsRemoveIgnoresRemote(p, l, r, s) ==
    s[p].present /\ ~l[p].present

NeedsRemove(p, l, r, s) ==
    s[p].present /\ ~l[p].present /\ ~r[p].present

Map(f(_), sq) == [k \in 1..Len(sq) |-> f(sq[k])]

\* Mutant of determine_sync_actions: the downloads loop runs first.
DownloadsFirst(l, r, s, t) ==
    {Map(Download, d) \o Map(Upload, u) \o Map(RemoveFromDatabase, x) :
        u \in Orders({p \in Paths : NeedsUpload(p, l, r, s)}),
        d \in Orders({p \in Paths : NeedsDownload(p, l, r, s, t)}),
        x \in Orders({p \in Paths : NeedsRemove(p, l, r, s)})}

\* The vectors determine_sync_actions may return: the uploads, then the
\* downloads, then the removals, each block in HashMap iteration order.
determine_sync_actions(l, r, s, t) ==
    {Map(Upload, u) \o Map(Download, d) \o Map(RemoveFromDatabase, x) :
        u \in Orders({p \in Paths : NeedsUpload(p, l, r, s)}),
        d \in Orders({p \in Paths : NeedsDownload(p, l, r, s, t)}),
        x \in Orders({p \in Paths : NeedsRemove(p, l, r, s)})}

\* ------------------------------------------------------------------ tasks

\* Local variables of one call of sync(); the last fields are history.
InitCyc ==
    [local_files |-> [p \in Paths |-> NoRow],
     remote_files |-> [p \in Paths |-> NoItem],
     stored_files |-> [p \in Paths |-> NoRow],
     actions |-> <<>>,
     i |-> 1,
     sync_result |-> "none",
     attempted |-> <<>>,     \* history: the actions executed, with their outcome
     log_start |-> 0,        \* history: Len(sync_log) when the cycle began
     scan_ok |-> FALSE,      \* history: the remote listing succeeded
     listed |-> [p \in Paths |-> NoItem], \* history: the files listed before a failure
     after_settled |-> FALSE,\* history: the cycle began in a settled state
     item |-> NoItem,        \* the DriveItem returned by upload_file
     ran |-> FALSE,          \* history: the call entered a cycle
     db |-> FALSE,           \* the task holds the MutexGuard of self.db
     rivals |-> {}]          \* history: callers pending when this one was spawned

\* Positions inside the body of sync() while is_syncing is true.
CyclePcs == {"scan_local", "scan_remote", "load_db", "plan", "exec", "commit", "sync_end"}

InCycle(t) == pc[t] \in CyclePcs

\* The table "files" of a first run, and one kept from an earlier run whose
\* file has since been deleted on the drive.
EmptyCatalog == [p \in Paths |-> NoRow]
StaleCatalog == [EmptyCatalog EXCEPT !["b"] = FileRecord(Sha256(1), ItemId("b"), 0)]

\* The sync folders holding files with content 1 on some paths of S.
LocalTrees(S) == {f \in [Paths -> 0..1] : \A p \in Paths \ S : f[p] = 0}

\* No upload_file call of the model of the API client is under way.
NoUpload == [phase |-> "none", total_size |-> 0, offset |-> 0, sent |-> <<>>,
             result |-> "none"]

\* The processes that run main(), by pid, and a process of main() that has
\* not been started.
Pids == {1, 2}
NotStarted == [pc |-> "not_started", seen |-> 0, result |-> "none"]

\* There is no lock file.
NoLockFile == 0

\* The API client and the start of the program at rest.
OthersAtRest ==
    /\ up = NoUpload
    /\ lock_file = NoLockFile
    /\ inst = [p \in Pids |-> NotStarted]

\* The sync engine after SyncManager::new, over files on the paths S.
EngineInit(S) ==
    /\ local \in LocalTrees(S)
    /\ remote = [p \in Paths |-> NoRemote]
    /\ files \in {EmptyCatalog, StaleCatalog}
    /\ sync_log = <<>>
    /\ status = DefaultStatus
    /\ now = 0
    /\ mgr = "free"
    /\ pc = [t \in Procs |-> "idle"]
    /\ cyc = [t \in Tasks |-> InitCyc]
    /\ result = [t \in Tasks |-> "none"]
    /\ api_calls = {}
    /\ env = 0
    /\ calls = 0
    /\ quiet = "changed"

\* The state after SyncManager::new, over files on the paths S.
InitOn(S) ==
    /\ OthersAtRest
    /\ EngineInit(S)

Init == InitOn(Visible)

\* Mutant of MgrLock: the guard is handed out while another task holds it.
MgrLockShared(t) == mgr' = t

\* sync_manager.lock().await completes for task t.
MgrLock(t) == mgr = "free" /\ mgr' = t

\* The MutexGuard of task t is dropped.
MgrUnlock(t) == mgr' = IF mgr = t THEN "free" ELSE mgr

\* The GUI spawns a task that will lock the manager and call sync().
Spawn(t) ==
    /\ t \in Callers
    /\ pc[t] = "idle"
    /\ calls < MaxCalls
    /\ calls' = calls + 1
    /\ pc' = [pc EXCEPT ![t] = "lock_mgr"]
    /\ cyc' = [cyc EXCEPT ![t].rivals =
                 IF ~status.is_syncing /\ \A u \in Tasks : ~InCycle(u)
                 THEN {u \in Callers \ {t} : pc[u] = "lock_mgr"}
                 ELSE {}]
    /\ UNCHANGED <<local, remote, files, sync_log, status, now, mgr, result,
                   api_calls, env, quiet>>
    /\ UNCHANGED other_vars

\* TrayManager::run spawns the auto-sync task.
AutoStart ==
    /\ pc[AutoTask] = "idle"
    /\ pc' = [pc EXCEPT ![AutoTask] = "lock_mgr"]
    /\ UNCHANGED <<local, remote, files, sync_log, status, now, mgr, cyc, result,
                   api_calls, env, calls, quiet>>
    /\ UNCHANGED other_vars

\* The task obtains the guard; a caller goes on to sync(), the auto-sync
\* task to start_auto_sync(), which it never leaves.
AcquireMgr(t) ==
    /\ pc[t] = "lock_mgr"
    /\ MgrLock(t)
    /\ pc' = [pc EXCEPT ![t] = IF t = AutoTask THEN "tick" ELSE "sync_check"]
    /\ UNCHANGED <<local, remote, files, sync_log, status, now, cyc, result,
                   api_calls, env, calls, quiet>>
    /\ UNCHANGED other_vars

\* One turn of the loop of start_auto_sync up to the call of sync().
\* A tick that ignored the is_syncing flag and went on to call sync().
AutoTickQueues ==
    /\ pc[AutoTask] = "tick"
    /\ calls < MaxCalls
    /\ calls' = calls + 1
    /\ pc' = [pc EXCEPT ![AutoTask] = "sync_check"]
    /\ UNCHANGED <<local, remote, files, sync_log, status, now, mgr, cyc, result,
                   api_calls, env, quiet>>
    /\ UNCHANGED other_vars

AutoTick ==
    /\ pc[AutoTask] = "tick"
    /\ IF status.is_syncing
       THEN pc' = pc /\ calls' = calls
       ELSE /\ calls < MaxCalls
            /\ calls' = calls + 1
            /\ pc' = [pc EXCEPT ![AutoTask] = "sync_check"]
    /\ UNCHANGED <<local, remote, files, sync_log, status, now, mgr, cyc, result,
                   api_calls, env, quiet>>
    /\ UNCHANGED other_vars

\* ------------------------------------------------------------------ sync()

\* update_status closures
SetOperation(st, op, progress) ==
    [st EXCEPT !.current_operation = op, !.sync_progress = progress]

PushError(st, e) == [st EXCEPT !.sync_errors = Append(@, e)]

\* Mutant of LogRow: the row is stamped with the time left until MaxTime.
LogRowCountdown(action, file_path, stat, error) ==
    [timestamp |-> MaxTime - now, action |-> action, file_path |-> file_path,
     status |-> stat, error |-> error]

\* One row of sync_log as log_sync_event inserts it.
LogRow(action, file_path, stat, error) ==
    [timestamp |-> now, action |-> action, file_path |-> file_path,
     status |-> stat, error |-> error]

\* An I/O operation fails (an event of the environment), or does not.
Fault == env < MaxEnv /\ env' = env + 1
NoFault == env' = env

\* A panic unwinds the task: its guard of the manager is dropped (a tokio
\* mutex is not poisoned) and nothing else is undone.
Panic(t) ==
    /\ pc' = [pc EXCEPT ![t] = "panicked"]
    /\ MgrUnlock(t)

\* sync(), lines 159-166: read is_syncing under the status lock; return the
\* error if a cycle is running.
SyncCheck(t) ==
    /\ pc[t] = "sync_check"
    /\ IF status.is_syncing
       THEN /\ result' = [result EXCEPT ![t] = "Sync already in progress"]
            /\ pc' = [pc EXCEPT ![t] = "return"]
       ELSE /\ result' = [result EXCEPT ![t] = "none"]
            /\ pc' = [pc EXCEPT ![t] = "sync_begin"]
    /\ UNCHANGED <<local, remote, files, sync_log, status, now, mgr, cyc,
                   api_calls, env, calls, quiet>>
    /\ UNCHANGED other_vars

\* sync(), lines 168-173: a second acquisition of the status lock sets
\* is_syncing and clears the errors.
SyncBegin(t) ==
    /\ pc[t] = "sync_begin"
    /\ status' = [SetOperation(status, <<"Starting sync...">>, 0)
                    EXCEPT !.is_syncing = TRUE, !.sync_errors = <<>>]
    /\ cyc' = [cyc EXCEPT ![t] =
                 [InitCyc EXCEPT !.ran = TRUE,
                                 !.rivals = cyc[t].rivals,
                                 !.log_start = Len(sync_log),
                                 !.after_settled = (quiet = "settled")]]
    /\ quiet' = "cycle"
    /\ pc' = [pc EXCEPT ![t] = "scan_local"]
    /\ UNCHANGED <<local, remote, files, sync_log, now, mgr, result,
                   api_calls, env, calls>>
    /\ UNCHANGED other_vars

\* Mutant of PerformFails: the error leaves sync() at once, as with a "?"
\* on the call of perform_sync.
PerformFailsEscapes(t, st, e) ==
    /\ status' = st
    /\ cyc' = [cyc EXCEPT ![t].sync_result = e]
    /\ pc' = [pc EXCEPT ![t] = "return"]
    /\ mgr' = mgr

\* perform_sync() returns Err(e) before the loop over the actions.
PerformFails(t, st, e) ==
    /\ status' = st
    /\ cyc' = [cyc EXCEPT ![t].sync_result = e]
    /\ pc' = [pc EXCEPT ![t] = "sync_end"]
    /\ mgr' = mgr

\* The local snapshot: one FileRecord per regular file whose relative path
\* does not start with '.', hashed.
LocalSnapshot ==
    [p \in Paths |-> IF local[p] # 0 /\ ~StartsWithDot(p)
                     THEN FileRecord(Sha256(local[p]), NoId, 0)
                     ELSE NoRow]

\* Step 1 of perform_sync: scan_local_files.
ScanLocal(t) ==
    /\ pc[t] = "scan_local"
    /\ LET st == SetOperation(status, <<"Scanning local files...">>, 10) IN
       \/ \* every file is hashed
          /\ status' = st
          /\ cyc' = [cyc EXCEPT ![t].local_files = LocalSnapshot]
          /\ pc' = [pc EXCEPT ![t] = "scan_remote"]
          /\ mgr' = mgr
          /\ NoFault
       \/ \* calculate_file_hash fails for a file: hash is "" and &hash[..8] panics
          /\ \E p \in Paths : local[p] # 0 /\ ~StartsWithDot(p)
          /\ Fault
          /\ status' = st
          /\ cyc' = cyc
          /\ Panic(t)
       \/ \* the sync folder is missing and create_dir_all fails
          /\ \A p \in Paths : local[p] = 0
          /\ Fault
          /\ PerformFails(t, st, "create_dir_all failed")
    /\ UNCHANGED <<local, remote, files, sync_log, now, result, api_calls,
                   calls, quiet>>
    /\ UNCHANGED other_vars

\* The remote snapshot of a listing that succeeds.
RemoteSnapshot ==
    [p \in Paths |-> IF remote[p].present THEN DriveItem(p, remote[p].mtime) ELSE NoItem]

\* The folder of the drive a path lies in: b lies in a subfolder, the other
\* paths in the root.
FolderOf(p) == IF p = "b" THEN "/sub" ELSE "/"

\* The map "files" of scan_remote_folder at the moment list_items fails: empty
\* when the listing of the root fails; when the listing of the subfolder
\* fails, the files of the root that came before the folder in the listing.
PartialListings ==
    {[p \in Paths |-> IF p \in S THEN RemoteSnapshot[p] ELSE NoItem] :
        S \in SUBSET {p \in Paths : FolderOf(p) = "/" /\ remote[p].present}}

\* Mutant of ScanFailed: the map filled so far is returned.
ScanFailedKeepsPartial(partial) == partial

\* scan_remote_files, the Err arm: Ok(HashMap::new()).
ScanFailed(partial) == [p \in Paths |-> NoItem]

\* Step 2 of perform_sync: scan_remote_files; a failed listing yields the
\* empty map and no error.
ScanRemote(t) ==
    /\ pc[t] = "scan_remote"
    /\ status' = SetOperation(status, <<"Scanning remote files...">>, 30)
    /\ api_calls' = api_calls \cup {"list_items"}
    /\ \/ /\ cyc' = [cyc EXCEPT ![t].remote_files = RemoteSnapshot, ![t].scan_ok = TRUE]
          /\ NoFault
       \/ /\ \E partial \in PartialListings :
                cyc' = [cyc EXCEPT ![t].remote_files = ScanFailed(partial),
                                   ![t].listed = partial]
          /\ Fault
    /\ pc' = [pc EXCEPT ![t] = "load_db"]
    /\ UNCHANGED <<local, remote, files, sync_log, now, mgr, result, calls, quiet>>
    /\ UNCHANGED other_vars

\* Step 3 of perform_sync: get_stored_files, which calls Handle::block_on.
\* block_on panics when the calling thread is driving asynchronous tasks.
LoadDb(t) ==
    /\ pc[t] = "load_db"
    /\ LET st == SetOperation(status, <<"Loading sync database...">>, 40) IN
       \/ /\ status' = st
          /\ cyc' = [cyc EXCEPT ![t].stored_files = files]
          /\ pc' = [pc EXCEPT ![t] = "plan"]
          /\ mgr' = mgr
          /\ NoFault
       \/ /\ status' = st
          /\ cyc' = cyc
          /\ Panic(t)
          /\ NoFault
       \/ /\ PerformFails(t, st, "database error")
          /\ Fault
    /\ UNCHANGED <<local, remote, files, sync_log, now, result, api_calls,
                   calls, quiet>>
    /\ UNCHANGED other_vars

\* Number of entries of a snapshot.
Count(m) == Cardinality({p \in Paths : m[p].present})

\* Step 4 of perform_sync: determine_sync_actions, total_files, and the
\* branch for an empty plan.
Plan(t) ==
    /\ pc[t] = "plan"
    /\ \E acts \in determine_sync_actions(cyc[t].local_files, cyc[t].remote_files,
                                          cyc[t].stored_files, now) :
          /\ cyc' = [cyc EXCEPT ![t].actions = acts,
                                ![t].sync_result = IF acts = <<>> THEN "Ok" ELSE "none"]
          /\ LET st == [SetOperation(status, <<"Determining sync actions...">>, 50)
                          EXCEPT !.total_files = Count(cyc[t].local_files)
                                                 + Count(cyc[t].remote_files)]
             IN status' = IF acts = <<>>
                          THEN SetOperation(st, <<"All files are up to date">>, 100)
                          ELSE st
          /\ pc' = [pc EXCEPT ![t] = IF acts = <<>> THEN "sync_end" ELSE "exec"]
    /\ UNCHANGED <<local, remote, files, sync_log, now, mgr, result, api_calls,
                   env, calls, quiet>>
    /\ UNCHANGED other_vars

\* ------------------------------------------------------------------ executor

CurrentAction(t) == cyc[t].actions[cyc[t].i]

\* Mutant of ExecStatus: the progress counts down from 0.9 over the actions.
ExecStatusCountdown(t, verb) ==
    SetOperation(status, <<verb, CurrentAction(t).path>>,
                 90 - (40 * (cyc[t].i - 1)) \div Len(cyc[t].actions))

\* The status written before action i (0-based i - 1) of N.
ExecStatus(t, verb) ==
    SetOperation(status, <<verb, CurrentAction(t).path>>,
                 50 + (40 * (cyc[t].i - 1)) \div Len(cyc[t].actions))

\* The loop of perform_sync moves to the next action, or ends with Ok(()).
Advance(c, ok, e) ==
    [c EXCEPT !.i = @ + 1,
              !.attempted = Append(@, [action |-> c.actions[c.i], ok |-> ok, error |-> e]),
              !.item = NoItem,
              !.sync_result = IF c.i = Len(c.actions) THEN "Ok" ELSE "none"]

LoopPc(c) == IF c.i = Len(c.actions) THEN "sync_end" ELSE "exec"

\* execute_sync_action returned Ok(()).
ActionOk(t) ==
    /\ cyc' = [cyc EXCEPT ![t] = Advance(@, TRUE, "")]
    /\ pc' = [pc EXCEPT ![t] = LoopPc(cyc[t])]

\* The error of get_access_token when the token is missing or expired and
\* cannot be refreshed; get_auth_header hands it on to every API call.
AuthError == "Not authenticated and cannot refresh token"

\* Mutant of ActionFailed: the loop propagates the error with "?", so
\* perform_sync returns it and the remaining actions are skipped.
ActionFailedAborts(t, st, e) ==
    /\ status' = st
    /\ cyc' = [cyc EXCEPT ![t] = [Advance(@, FALSE, e) EXCEPT !.sync_result = e]]
    /\ pc' = [pc EXCEPT ![t] = "sync_end"]

\* execute_sync_action returned Err(e): perform_sync pushes the text of the
\* error and continues with the other actions.
ActionFailed(t, st, e) ==
    /\ status' = PushError(st, e)
    /\ cyc' = [cyc EXCEPT ![t] = Advance(@, FALSE, e)]
    /\ pc' = [pc EXCEPT ![t] = LoopPc(cyc[t])]

\* Upload, first half: the status update and api.upload_file, which reads
\* the local file and replaces the remote one.
ExecUploadTransfer(t) ==
    /\ pc[t] = "exec"
    /\ CurrentAction(t).kind = "Upload"
    /\ api_calls' = api_calls \cup {"upload_file"}
    /\ LET p == CurrentAction(t).path
           st == ExecStatus(t, "Uploading")
       IN \/ /\ local[p] # 0
             /\ remote' = [remote EXCEPT ![p] = RemoteFile(local[p], now)]
             /\ status' = st
             /\ cyc' = [cyc EXCEPT ![t].item = DriveItem(p, now)]
             /\ pc' = [pc EXCEPT ![t] = "commit"]
             /\ NoFault
          \/ /\ remote' = remote
             /\ ActionFailed(t, st, "Failed to upload file")
             /\ IF local[p] = 0 THEN NoFault ELSE Fault
          \/ /\ remote' = remote
             /\ ActionFailed(t, st, AuthError)
             /\ Fault
    /\ UNCHANGED <<local, files, sync_log, now, mgr, result, calls, quiet>>
    /\ UNCHANGED other_vars

\* Mutant of UploadedRow: the hash the scan computed is stored instead of
\* a hash of the file as it is after the transfer.
UploadedRowScanHash(t, p) ==
    FileRecord(cyc[t].local_files[p].hash, cyc[t].item.id, now)

\* The row written after upload_file has returned: the hash of the local
\* file read now, the id of the item the server returned, the time.
UploadedRow(t, p) == FileRecord(Sha256(local[p]), cyc[t].item.id, now)

\* Upload, second half: hash and metadata of the local file, INSERT OR
\* REPLACE, files_uploaded, log_sync_event.
ExecUploadCommit(t) ==
    /\ pc[t] = "commit"
    /\ CurrentAction(t).kind = "Upload"
    /\ LET p == CurrentAction(t).path
           row == UploadedRow(t, p)
           counted == [status EXCEPT !.files_uploaded = @ + 1]
       IN \/ /\ local[p] # 0
             /\ files' = [files EXCEPT ![p] = row]
             /\ sync_log' = Append(sync_log, LogRow("upload", p, "success", <<>>))
             /\ status' = counted
             /\ ActionOk(t)
             /\ NoFault
          \/ /\ \E e \in (IF local[p] = 0 THEN {"hash failed"}
                          ELSE {"hash failed", "metadata failed", "database write failed"}) :
                   ActionFailed(t, status, e)
             /\ IF local[p] = 0 THEN NoFault ELSE Fault
             /\ UNCHANGED <<files, sync_log>>
          \/ /\ local[p] # 0
             /\ files' = [files EXCEPT ![p] = row]
             /\ sync_log' = sync_log
             /\ ActionFailed(t, counted, "log write failed")
             /\ Fault
    /\ UNCHANGED <<local, remote, now, mgr, result, api_calls, calls, quiet>>
    /\ UNCHANGED other_vars

\* Download, first half: the status update, create_dir_all and
\* api.download_file, which writes the local file.
ExecDownloadTransfer(t) ==
    /\ pc[t] = "exec"
    /\ CurrentAction(t).kind = "Download"
    /\ LET p == CurrentAction(t).path
           st == ExecStatus(t, "Downloading")
       IN \/ /\ remote[p].present
             /\ api_calls' = api_calls \cup {"download_file"}
             /\ local' = [local EXCEPT ![p] = remote[p].content]
             /\ status' = st
             /\ cyc' = cyc
             /\ pc' = [pc EXCEPT ![t] = "commit"]
             /\ NoFault
          \/ /\ api_calls' = api_calls \cup {"download_file"}
             /\ local' = local
             /\ ActionFailed(t, st, "Failed to download file")
             /\ IF remote[p].present THEN Fault ELSE NoFault
          \/ /\ api_calls' = api_calls
             /\ local' = local
             /\ ActionFailed(t, st, "create_dir_all failed")
             /\ Fault
    /\ UNCHANGED <<remote, files, sync_log, now, mgr, result, calls, quiet>>
    /\ UNCHANGED other_vars

\* Download, second half: hash of the written file, INSERT OR REPLACE,
\* files_downloaded, log_sync_event.
ExecDownloadCommit(t) ==
    /\ pc[t] = "commit"
    /\ CurrentAction(t).kind = "Download"
    /\ LET p == CurrentAction(t).path
           row == FileRecord(Sha256(local[p]), cyc[t].remote_files[p].id, now)
           counted == [status EXCEPT !.files_downloaded = @ + 1]
       IN \/ /\ local[p] # 0
             /\ files' = [files EXCEPT ![p] = row]
             /\ sync_log' = Append(sync_log, LogRow("download", p, "success", <<>>))
             /\ status' = counted
             /\ ActionOk(t)
             /\ NoFault
          \/ /\ \E e \in (IF local[p] = 0 THEN {"hash failed"}
                          ELSE {"hash failed", "database write failed"}) :
                   ActionFailed(t, status, e)
             /\ IF local[p] = 0 THEN NoFault ELSE Fault
             /\ UNCHANGED <<files, sync_log>>
          \/ /\ local[p] # 0
             /\ files' = [files EXCEPT ![p] = row]
             /\ sync_log' = sync_log
             /\ ActionFailed(t, counted, "log write failed")
             /\ Fault
    /\ UNCHANGED <<local, remote, now, mgr, result, api_calls, calls, quiet>>
    /\ UNCHANGED other_vars

\* Mutant of RemoveCalls: the removal is mirrored to the drive.
RemoveCallsDeleteItem == {"delete_item"}

\* The remote operations of the RemoveFromDatabase arm: none.
RemoveCalls == {}

\* RemoveFromDatabase: the status update, DELETE FROM files,
\* files_deleted, log_sync_event.
ExecRemove(t) ==
    /\ pc[t] = "exec"
    /\ CurrentAction(t).kind = "RemoveFromDatabase"
    /\ api_calls' = api_calls \cup RemoveCalls
    /\ LET p == CurrentAction(t).path
           st == ExecStatus(t, "Cleaning up")
           counted == [st EXCEPT !.files_deleted = @ + 1]
       IN \/ /\ files' = [files EXCEPT ![p] = NoRow]
             /\ sync_log' = Append(sync_log, LogRow("remove_from_db", p, "success", <<>>))
             /\ status' = counted
             /\ ActionOk(t)
             /\ NoFault
          \/ /\ ActionFailed(t, st, "database write failed")
             /\ Fault
             /\ UNCHANGED <<files, sync_log>>
          \/ /\ files' = [files EXCEPT ![p] = NoRow]
             /\ sync_log' = sync_log
             /\ ActionFailed(t, counted, "log write failed")
             /\ Fault
    /\ UNCHANGED <<local, remote, now, mgr, result, calls, quiet>>
    /\ UNCHANGED other_vars

\* ------------------------------------------------------------------ executor, lock by lock

\* The arms of execute_sync_action once more, one step per acquisition of
\* the catalog lock and of the status lock.

\* let db = self.db.lock().await
LockDb(c) == [c EXCEPT !.db = TRUE]

\* Mutant of DropDb: the guard is kept until the arm ends.
DropDbLate(c) == c

\* drop(db), or the guard going out of scope when "?" returns the error.
DropDb(c) == [c EXCEPT !.db = FALSE]

\* The row the arm of the current action writes to "files".
ArmRow(t) ==
    LET p == CurrentAction(t).path
    IN CASE CurrentAction(t).kind = "Upload" -> UploadedRow(t, p)
         [] CurrentAction(t).kind = "Download" ->
                FileRecord(Sha256(local[p]), cyc[t].remote_files[p].id, now)
         [] OTHER -> NoRow

\* The counter of SyncStatus the arm of the current action increments.
ArmCounted(t) ==
    CASE CurrentAction(t).kind = "Upload" -> [status EXCEPT !.files_uploaded = @ + 1]
      [] CurrentAction(t).kind = "Download" -> [status EXCEPT !.files_downloaded = @ + 1]
      [] OTHER -> [status EXCEPT !.files_deleted = @ + 1]

\* The action name the arm of the current action logs.
ArmLogName(t) ==
    CASE CurrentAction(t).kind = "Upload" -> "upload"
      [] CurrentAction(t).kind = "Download" -> "download"
      [] OTHER -> "remove_from_db"

\* The arm returns Err(e) while holding whatever guard it holds.
ArmFails(t, e) ==
    /\ status' = PushError(status, e)
    /\ cyc' = [cyc EXCEPT ![t] = DropDb(Advance(@, FALSE, e))]
    /\ pc' = [pc EXCEPT ![t] = LoopPc(cyc[t])]

\* RemoveFromDatabase: the status update of perform_sync; the arm itself
\* starts with the catalog lock.
ExecRemoveBegin(t) ==
    /\ pc[t] = "exec"
    /\ CurrentAction(t).kind = "RemoveFromDatabase"
    /\ api_calls' = api_calls \cup RemoveCalls
    /\ status' = ExecStatus(t, "Cleaning up")
    /\ pc' = [pc EXCEPT ![t] = "commit"]
    /\ UNCHANGED <<local, remote, files, sync_log, now, mgr, cyc, result, env,
                   calls, quiet>>
    /\ UNCHANGED other_vars

\* After the transfer: hash and metadata of the local file, then
\* self.db.lock().await (lines 519-528, 553-558, 572).
ExecLockDb(t) ==
    /\ pc[t] = "commit"
    /\ LET p == CurrentAction(t).path
           transfer == CurrentAction(t).kind \in {"Upload", "Download"}
       IN \/ /\ transfer => local[p] # 0
             /\ cyc' = [cyc EXCEPT ![t] = LockDb(@)]
             /\ pc' = [pc EXCEPT ![t] = "row_locked"]
             /\ status' = status
             /\ NoFault
          \/ /\ transfer
             /\ ArmFails(t, "hash failed")
             /\ IF local[p] = 0 THEN NoFault ELSE Fault
    /\ UNCHANGED <<local, remote, files, sync_log, now, mgr, result, api_calls,
                   calls, quiet>>
    /\ UNCHANGED other_vars

\* db.execute(INSERT OR REPLACE / DELETE)?; drop(db).
ExecWriteRow(t) ==
    /\ pc[t] = "row_locked"
    /\ \/ /\ files' = [files EXCEPT ![CurrentAction(t).path] = ArmRow(t)]
          /\ cyc' = [cyc EXCEPT ![t] = DropDb(@)]
          /\ pc' = [pc EXCEPT ![t] = "count"]
          /\ status' = status
          /\ NoFault
       \/ /\ files' = files
          /\ ArmFails(t, "database write failed")
          /\ Fault
    /\ UNCHANGED <<local, remote, sync_log, now, mgr, result, api_calls, calls,
                   quiet>>
    /\ UNCHANGED other_vars

\* self.update_status(|status| status.files_... += 1).await
ExecCount(t) ==
    /\ pc[t] = "count"
    /\ status' = ArmCounted(t)
    /\ pc' = [pc EXCEPT ![t] = "log"]
    /\ UNCHANGED <<local, remote, files, sync_log, now, mgr, cyc, result,
                   api_calls, env, calls, quiet>>
    /\ UNCHANGED other_vars

\* log_sync_event, line 596: self.db.lock().await
ExecLockLog(t) ==
    /\ pc[t] = "log"
    /\ cyc' = [cyc EXCEPT ![t] = LockDb(@)]
    /\ pc' = [pc EXCEPT ![t] = "log_locked"]
    /\ UNCHANGED <<local, remote, files, sync_log, status, now, mgr, result,
                   api_calls, env, calls, quiet>>
    /\ UNCHANGED other_vars

\* log_sync_event, lines 597-603: db.execute(INSERT INTO sync_log)?; drop(db);
\* the arm returns Ok(()).
ExecWriteLog(t) ==
    /\ pc[t] = "log_locked"
    /\ \/ /\ sync_log' = Append(sync_log, LogRow(ArmLogName(t), CurrentAction(t).path,
                                                 "success", <<>>))
          /\ cyc' = [cyc EXCEPT ![t] = DropDb(Advance(@, TRUE, ""))]
          /\ pc' = [pc EXCEPT ![t] = LoopPc(cyc[t])]
          /\ status' = status
          /\ NoFault
       \/ /\ sync_log' = sync_log
          /\ ArmFails(t, "log write failed")
          /\ Fault
    /\ UNCHANGED <<local, remote, files, now, mgr, result, api_calls, calls,
                   quiet>>
    /\ UNCHANGED other_vars

\* ------------------------------------------------------------------ end of sync()

\* The cycle of task t planned with a full remote listing and executed all
\* its actions successfully.
CleanCycle(c) ==
    /\ c.sync_result = "Ok"
    /\ c.scan_ok
    /\ \A k \in 1..Len(c.attempted) : c.attempted[k].ok

\* sync(), lines 179-202: is_syncing back to false, then the match on the
\* result of perform_sync with its log_sync_event(...)? .
SyncEnd(t) ==
    /\ pc[t] = "sync_end"
    /\ LET st == [status EXCEPT !.is_syncing = FALSE, !.last_sync = now,
                                !.sync_progress = 100]
           e == cyc[t].sync_result
       IN IF e = "Ok"
          THEN /\ status' = [st EXCEPT !.current_operation = <<"Sync completed">>]
               /\ \/ /\ sync_log' = Append(sync_log, LogRow("sync_complete", "", "success", <<>>))
                     /\ result' = [result EXCEPT ![t] = "Ok"]
                     /\ NoFault
                  \/ /\ sync_log' = sync_log
                     /\ result' = [result EXCEPT ![t] = "log write failed"]
                     /\ Fault
          ELSE /\ status' = [PushError(st, e) EXCEPT !.current_operation = <<"Sync failed">>]
               /\ \/ /\ sync_log' = Append(sync_log, LogRow("sync_complete", "", "failed", <<e>>))
                     /\ result' = [result EXCEPT ![t] = e]
                     /\ NoFault
                  \/ /\ sync_log' = sync_log
                     /\ result' = [result EXCEPT ![t] = "log write failed"]
                     /\ Fault
    /\ quiet' = IF quiet = "cycle" /\ CleanCycle(cyc[t]) THEN "settled" ELSE "changed"
    /\ pc' = [pc EXCEPT ![t] = "return"]
    /\ UNCHANGED <<local, remote, files, now, mgr, cyc, api_calls, calls>>
    /\ UNCHANGED other_vars

\* sync() has returned to a spawned task of the GUI, which ends and drops
\* its guard.
CallerReturn(t) ==
    /\ t \in Callers
    /\ pc[t] = "return"
    /\ pc' = [pc EXCEPT ![t] = "done"]
    /\ MgrUnlock(t)
    /\ cyc' = [cyc EXCEPT ![t] = [InitCyc EXCEPT !.ran = cyc[t].ran, !.rivals = cyc[t].rivals]]
    /\ UNCHANGED <<local, remote, files, sync_log, status, now, result,
                   api_calls, env, calls, quiet>>
    /\ UNCHANGED other_vars

\* sync() has returned to start_auto_sync, which records an error and
\* waits for the next tick, still holding the guard.
AutoReturn ==
    /\ pc[AutoTask] = "return"
    /\ status' = IF result[AutoTask] = "Ok" THEN status
                 ELSE PushError(status, "Auto-sync failed")
    /\ pc' = [pc EXCEPT ![AutoTask] = "tick"]
    /\ cyc' = [cyc EXCEPT ![AutoTask] = [InitCyc EXCEPT !.ran = cyc[AutoTask].ran]]
    /\ UNCHANGED <<local, remote, files, sync_log, now, mgr, result,
                   api_calls, env, calls, quiet>>
    /\ UNCHANGED other_vars

\* ------------------------------------------------------------------ environment

\* The environment acts between two cycles and between two steps of the
\* executor. A change or a tick during the scans and the planning reaches
\* the engine exactly as one just before the cycle (if the scan of its side
\* is still to come) or one just before the first action (if it is not).
EnvPcs == {"idle", "lock_mgr", "tick", "done", "panicked", "exec", "commit"}

EnvTurn == \A t \in Tasks : pc[t] \in EnvPcs

\* The user creates or rewrites a file of the sync folder.
UserWrite(p, c) ==
    /\ EnvTurn
    /\ env < MaxEnv
    /\ local[p] # c
    /\ local' = [local EXCEPT ![p] = c]
    /\ env' = env + 1
    /\ quiet' = "changed"
    /\ UNCHANGED <<remote, files, sync_log, status, now, mgr, pc, cyc, result,
                   api_calls, calls>>
    /\ UNCHANGED other_vars

\* The user deletes a file of the sync folder.
UserDelete(p) ==
    /\ EnvTurn
    /\ env < MaxEnv
    /\ local[p] # 0
    /\ local' = [local EXCEPT ![p] = 0]
    /\ env' = env + 1
    /\ quiet' = "changed"
    /\ UNCHANGED <<remote, files, sync_log, status, now, mgr, pc, cyc, result,
                   api_calls, calls>>
    /\ UNCHANGED other_vars

\* Another device creates or replaces a file of the drive.
RemoteWrite(p, c) ==
    /\ EnvTurn
    /\ env < MaxEnv
    /\ remote[p] # RemoteFile(c, now)
    /\ remote' = [remote EXCEPT ![p] = RemoteFile(c, now)]
    /\ env' = env + 1
    /\ quiet' = "changed"
    /\ UNCHANGED <<local, files, sync_log, status, now, mgr, pc, cyc, result,
                   api_calls, calls>>
    /\ UNCHANGED other_vars

\* The user deletes a file of the drive in the drive's own interface.
RemoteDelete(p) ==
    /\ EnvTurn
    /\ env < MaxEnv
    /\ remote[p].present
    /\ remote' = [remote EXCEPT ![p] = NoRemote]
    /\ env' = env + 1
    /\ quiet' = "changed"
    /\ UNCHANGED <<local, files, sync_log, status, now, mgr, pc, cyc, result,
                   api_calls, calls>>
    /\ UNCHANGED other_vars

\* A second passes.
Tick ==
    /\ EnvTurn
    /\ now < MaxTime
    /\ now' = now + 1
    /\ UNCHANGED <<local, remote, files, sync_log, status, mgr, pc, cyc, result,
                   api_calls, env, calls, quiet>>
    /\ UNCHANGED other_vars

\* ------------------------------------------------------------------ observers

\* TrayManager::run, line 90-92: the auto-sync task has been spawned, the
\* sleep of 100 ms has elapsed and the loop calls update_tray_status, which
\* asks for the manager.
TrayStatusAsk ==
    /\ pc[TrayLoop] = "idle"
    /\ pc[AutoTask] # "idle"
    /\ pc' = [pc EXCEPT ![TrayLoop] = "lock_mgr"]
    /\ UNCHANGED <<local, remote, files, sync_log, status, now, mgr, cyc, result,
                   api_calls, env, calls, quiet>>
    /\ UNCHANGED other_vars

\* update_tray_status, line 149: sync_manager.lock().await completes.
TrayStatusLock ==
    /\ pc[TrayLoop] = "lock_mgr"
    /\ MgrLock(TrayLoop)
    /\ pc' = [pc EXCEPT ![TrayLoop] = "get_status"]
    /\ UNCHANGED <<local, remote, files, sync_log, status, now, cyc, result,
                   api_calls, env, calls, quiet>>
    /\ UNCHANGED other_vars

\* update_tray_status, lines 150-151: get_status returns the snapshot and
\* the guard is dropped; the loop goes back to select!.
TrayStatusRead ==
    /\ pc[TrayLoop] = "get_status"
    /\ MgrUnlock(TrayLoop)
    /\ pc' = [pc EXCEPT ![TrayLoop] = "idle"]
    /\ UNCHANGED <<local, remote, files, sync_log, status, now, cyc, result,
                   api_calls, env, calls, quiet>>
    /\ UNCHANGED other_vars

\* OneDriveApp::update, lines 175-180: timeout(10 ms, sync_manager.lock()).
\* The lock is granted if the manager is free; otherwise the timeout elapses
\* and the GUI keeps the copy of the status it already has (line 183).
GuiStatusTry ==
    /\ pc[GuiUpdate] = "idle"
    /\ IF mgr = "free"
       THEN MgrLock(GuiUpdate) /\ pc' = [pc EXCEPT ![GuiUpdate] = "get_status"]
       ELSE mgr' = mgr /\ pc' = pc
    /\ UNCHANGED <<local, remote, files, sync_log, status, now, cyc, result,
                   api_calls, env, calls, quiet>>
    /\ UNCHANGED other_vars

\* OneDriveApp::update, line 181: get_status returns the snapshot and the
\* guard is dropped at the end of the block.
GuiStatusRead ==
    /\ pc[GuiUpdate] = "get_status"
    /\ MgrUnlock(GuiUpdate)
    /\ pc' = [pc EXCEPT ![GuiUpdate] = "idle"]
    /\ UNCHANGED <<local, remote, files, sync_log, status, now, cyc, result,
                   api_calls, env, calls, quiet>>
    /\ UNCHANGED other_vars

\* TrayManager::run, lines 81-84 and 97-98: the menu channel is closed while
\* the loop waits in select!; run returns, run_tray_mode returns and the
\* tokio runtime of #[tokio::main] is dropped. The runtime drops the spawned
\* auto-sync task at the await it is suspended in, wherever that is, and with
\* it the guard the task holds. This is the only way the program ends
\* start_auto_sync.
TrayShutdown ==
    /\ pc[TrayLoop] = "idle"
    /\ pc[AutoTask] # "idle"
    /\ pc' = [pc EXCEPT ![TrayLoop] = "shut_down",
                        ![AutoTask] = IF @ = "panicked" THEN @ ELSE "dropped"]
    /\ MgrUnlock(AutoTask)
    /\ UNCHANGED <<local, remote, files, sync_log, status, now, cyc, result,
                   api_calls, env, calls, quiet>>
    /\ UNCHANGED other_vars

\* ------------------------------------------------------------------ API client: upload_file

\* upload_large_file: let chunk_size = 320 * 1024.
ChunkSize == 320 * 1024

\* upload_file: files smaller than 4 MB take the simple upload.
SimpleLimit == 4 * 1024 * 1024

\* The sizes of the files uploaded: empty, around the limit of the simple
\* upload, and a whole number of chunks and one byte more.
FileSizes == {0, SimpleLimit - 1, SimpleLimit, SimpleLimit + 1,
              13 * ChunkSize, 13 * ChunkSize + 1}

\* The HTTP status codes the upload session answers a chunk with.
ChunkCodes == {200, 201, 202, 500}

\* Mutant of ChunkEnd: the end of the chunk is not clamped to the file.
ChunkEndUnclamped(offset, total_size) == offset + ChunkSize

\* let end = std::cmp::min(offset + chunk_size, total_size)
ChunkEnd(offset, total_size) ==
    IF offset + ChunkSize < total_size THEN offset + ChunkSize ELSE total_size

\* upload_file returns.
UploadReturns(u, r) == [u EXCEPT !.phase = "done", !.result = r]

\* upload_file for a file below the limit: one PUT of the whole content.
UploadSimple ==
    /\ up.phase = "upload_file"
    /\ up.total_size < SimpleLimit
    /\ \E r \in {"Ok", "Failed to upload file"} : up' = UploadReturns(up, r)
    /\ UNCHANGED <<engine_vars, lock_file, inst>>

\* upload_file for a larger file: upload_large_file creates the session.
UploadCreateSession ==
    /\ up.phase = "upload_file"
    /\ up.total_size >= SimpleLimit
    /\ \/ up' = [up EXCEPT !.phase = "chunks", !.offset = 0]
       \/ up' = UploadReturns(up, "Failed to create upload session")
    /\ UNCHANGED <<engine_vars, lock_file, inst>>

\* One turn of the while loop of upload_large_file: the PUT of the bytes
\* offset..end-1 and the branch on the status code of the answer.
UploadChunk ==
    /\ up.phase = "chunks"
    /\ up.offset < up.total_size
    /\ LET end == ChunkEnd(up.offset, up.total_size) IN
       \E code \in ChunkCodes :
          LET u == [up EXCEPT !.sent = Append(@, [first |-> up.offset,
                                                  last |-> end - 1,
                                                  code |-> code])]
          IN up' = CASE code = 202 -> [u EXCEPT !.offset = end]
                     [] code \in {200, 201} -> UploadReturns(u, "Ok")
                     [] OTHER -> UploadReturns(u, "Upload chunk failed")
    /\ UNCHANGED <<engine_vars, lock_file, inst>>

\* The while loop ends with offset = total_size: line 308.
UploadLoopExit ==
    /\ up.phase = "chunks"
    /\ up.offset >= up.total_size
    /\ up' = UploadReturns(up, "Upload completed but no final response received")
    /\ UNCHANGED <<engine_vars, lock_file, inst>>

\* ------------------------------------------------------------------ main: check_single_instance

\* The pid a lock file left behind by an earlier run holds: no process of
\* that pid is running.
StalePid == 3

\* process_exists(pid): kill -0 succeeds for a process that has been started
\* and has not exited, whether or not it is past check_single_instance.
process_exists(pid) ==
    pid \in Pids /\ inst[pid].pc \notin {"not_started", "refused", "exited"}

\* The process leaves check_single_instance with Ok(r).
Returns(p, place, r) == inst' = [inst EXCEPT ![p].pc = place, ![p].result = r]

\* The program is started: main calls check_single_instance.
Launch(p) ==
    /\ inst[p].pc = "not_started"
    /\ inst' = [inst EXCEPT ![p].pc = "exists"]
    /\ UNCHANGED <<engine_vars, up, lock_file>>

\* line 195: lock_file.exists()
CheckExists(p) ==
    /\ inst[p].pc = "exists"
    /\ inst' = [inst EXCEPT ![p].pc = IF lock_file # NoLockFile THEN "read" ELSE "write"]
    /\ UNCHANGED <<engine_vars, up, lock_file>>

\* lines 196-197: read_to_string and parse; a file removed since the test of
\* line 195 cannot be read and the function goes on to write its own.
ReadLock(p) ==
    /\ inst[p].pc = "read"
    /\ inst' = IF lock_file # NoLockFile
               THEN [inst EXCEPT ![p].pc = "probe", ![p].seen = lock_file]
               ELSE [inst EXCEPT ![p].pc = "write"]
    /\ UNCHANGED <<engine_vars, up, lock_file>>

\* lines 199-201: the owner of the lock file is running: Ok(false), and main
\* returns.
ProbeOwner(p) ==
    /\ inst[p].pc = "probe"
    /\ IF process_exists(inst[p].seen)
       THEN Returns(p, "refused", "false")
       ELSE inst' = [inst EXCEPT ![p].pc = "remove"]
    /\ UNCHANGED <<engine_vars, up, lock_file>>

\* line 204: the lock file is taken for stale and removed, whatever it holds
\* by now.
RemoveStale(p) ==
    /\ inst[p].pc = "remove"
    /\ lock_file' = NoLockFile
    /\ inst' = [inst EXCEPT ![p].pc = "write"]
    /\ UNCHANGED <<engine_vars, up>>

\* lines 211-221: the process writes its pid, installs the Ctrl-C handler
\* and returns Ok(true).
WriteLock(p) ==
    /\ inst[p].pc = "write"
    /\ lock_file' = p
    /\ Returns(p, "running", "true")
    /\ UNCHANGED <<engine_vars, up>>

\* The instance ends: by Ctrl-C, whose handler removes the lock file
\* (lines 216-219), or otherwise, leaving the file behind.
Exit(p) ==
    /\ inst[p].pc = "running"
    /\ inst' = [inst EXCEPT ![p].pc = "exited"]
    /\ \E handler \in BOOLEAN :
          lock_file' = IF handler THEN NoLockFile ELSE lock_file
    /\ UNCHANGED <<engine_vars, up>>

\* ------------------------------------------------------------------ specification

\* The steps of the sync engine.
Engine(t) ==
    \/ SyncCheck(t)
    \/ SyncBegin(t)
    \/ ScanLocal(t)
    \/ ScanRemote(t)
    \/ LoadDb(t)
    \/ Plan(t)
    \/ ExecUploadTransfer(t)
    \/ ExecUploadCommit(t)
    \/ ExecDownloadTransfer(t)
    \/ ExecDownloadCommit(t)
    \/ ExecRemove(t)
    \/ SyncEnd(t)

\* The changes the user and other devices make to the files on the paths S.
ChangesOn(S) ==
    \/ \E p \in S, c \in Contents : UserWrite(p, c)
    \/ \E p \in S : UserDelete(p)
    \/ \E p \in S, c \in Contents : RemoteWrite(p, c)
    \/ \E p \in S : RemoteDelete(p)

Changes == ChangesOn(Visible)

\* The GUI and the tray: every task, over files that nobody else changes.
Next ==
    \/ \E t \in Callers : Spawn(t)
    \/ AutoStart
    \/ \E t \in Tasks : AcquireMgr(t)
    \/ AutoTick
    \/ \E t \in Tasks : Engine(t)
    \/ \E t \in Callers : CallerReturn(t)
    \/ AutoReturn
    \/ Tick

Spec == Init /\ [][Next]_vars

\* The tray alone: the auto-sync task runs cycle after cycle while the user
\* and other devices change the files.
NextTray ==
    \/ AutoStart
    \/ AcquireMgr(AutoTask)
    \/ AutoTick
    \/ Engine(AutoTask)
    \/ AutoReturn
    \/ Tick
    \/ Changes

SpecTray == Init /\ [][NextTray]_vars

\* The tray under the tokio scheduler: a task whose pending call has returned
\* is polled again, so the engine takes its next step.
SpecTrayLive == Init /\ [][NextTray]_vars /\ WF_vars(Engine(AutoTask))

\* The tray over a folder and a drive that also hold a hidden file.
InitHidden == InitOn(HiddenScope)

NextHidden ==
    \/ AutoStart
    \/ AcquireMgr(AutoTask)
    \/ AutoTick
    \/ Engine(AutoTask)
    \/ AutoReturn
    \/ Tick
    \/ ChangesOn(HiddenScope)

SpecHidden == InitHidden /\ [][NextHidden]_vars

\* The steps of the sync engine with the executor taken lock by lock.
EngineLocks(t) ==
    \/ SyncCheck(t)
    \/ SyncBegin(t)
    \/ ScanLocal(t)
    \/ ScanRemote(t)
    \/ LoadDb(t)
    \/ Plan(t)
    \/ ExecUploadTransfer(t)
    \/ ExecDownloadTransfer(t)
    \/ ExecRemoveBegin(t)
    \/ ExecLockDb(t)
    \/ ExecWriteRow(t)
    \/ ExecCount(t)
    \/ ExecLockLog(t)
    \/ ExecWriteLog(t)
    \/ SyncEnd(t)

\* The tray alone, with the executor taken lock by lock.
NextLocks ==
    \/ AutoStart
    \/ AcquireMgr(AutoTask)
    \/ AutoTick
    \/ EngineLocks(AutoTask)
    \/ AutoReturn
    \/ Tick
    \/ Changes

SpecLocks == Init /\ [][NextLocks]_vars

\* The GUI: the tasks it spawns for the initial and the manual sync, and
\* the status reads of its frame callback.
NextGui ==
    \/ \E t \in Callers : Spawn(t)
    \/ \E t \in Callers : AcquireMgr(t)
    \/ \E t \in Callers : Engine(t)
    \/ \E t \in Callers : CallerReturn(t)
    \/ Tick
    \/ GuiStatusTry
    \/ GuiStatusRead

SpecGui == Init /\ [][NextGui]_vars

\* One call of upload_file of the API client, for a file of any of the
\* sizes. The call is polled until it returns.
InitUpload ==
    /\ EngineInit({})
    /\ files = EmptyCatalog
    /\ up \in {[NoUpload EXCEPT !.phase = "upload_file", !.total_size = n] :
                  n \in FileSizes}
    /\ lock_file = NoLockFile
    /\ inst = [p \in Pids |-> NotStarted]

NextUpload ==
    \/ UploadSimple
    \/ UploadCreateSession
    \/ UploadChunk
    \/ UploadLoopExit

SpecUpload == InitUpload /\ [][NextUpload]_vars /\ WF_vars(NextUpload)

\* The start of the program: two processes run main(), with or without a
\* lock file left behind by an earlier run.
InitInstance ==
    /\ EngineInit({})
    /\ files = EmptyCatalog
    /\ up = NoUpload
    /\ lock_file \in {NoLockFile, StalePid}
    /\ inst = [p \in Pids |-> NotStarted]

NextInstance ==
    \E p \in Pids :
        \/ Launch(p)
        \/ CheckExists(p)
        \/ ReadLock(p)
        \/ ProbeOwner(p)
        \/ RemoveStale(p)
        \/ WriteLock(p)
        \/ Exit(p)

SpecInstance == InitInstance /\ [][NextInstance]_vars

\* The tray with its own loop: the auto-sync task and the status reads of
\* TrayManager::run, over files that nobody else changes. The tokio Mutex
\* is fair, and a task whose call has returned is polled again.
NextObserved ==
    \/ AutoStart
    \/ AcquireMgr(AutoTask)
    \/ AutoTick
    \/ Engine(AutoTask)
    \/ AutoReturn
    \/ Tick
    \/ TrayStatusAsk
    \/ TrayStatusLock
    \/ TrayStatusRead
    \/ TrayShutdown

\* The steps of the spawned auto-sync task.
AutoTaskStep ==
    \/ AcquireMgr(AutoTask)
    \/ AutoTick
    \/ Engine(AutoTask)
    \/ AutoReturn

SpecObserved ==
    /\ Init
    /\ [][NextObserved]_vars
    /\ WF_vars(AutoTaskStep)
    /\ SF_vars(TrayStatusLock)
    /\ WF_vars(TrayStatusRead)

TypeOK ==
    /\ local \in [Paths -> Contents \cup {0}]
    /\ mgr \in Procs \cup {"free"}
    /\ now \in Times
    /\ env \in 0..MaxEnv
    /\ calls \in 0..MaxCalls
    /\ up.phase \in {"none", "upload_file", "chunks", "done"}
    /\ up.offset \in 0..up.total_size
    /\ lock_file \in {NoLockFile, StalePid} \cup Pids
    /\ \A p \in Pids : inst[p].pc \in {"not_started", "exists", "read", "probe",
                                       "remove", "write", "running", "refused",
                                       "exited"}

\* ------------------------------------------------------------------ claims

\* C1 (single-flight): under every interleaving of the auto-sync task, the
\* initial sync of the GUI and the manual syncs, at most one task is inside
\* the body of sync() between is_syncing = true and is_syncing = false.
C1_SingleFlight == Cardinality({t \in Tasks : InCycle(t)}) <= 1

\* A cycle is running while another task has asked for the manager.
C1_Witness == \E t, u \in Tasks : t # u /\ InCycle(t) /\ pc[u] = "lock_mgr"

\* C2 (as claimed): of two callers that were both pending while no cycle
\* was running, exactly one runs a cycle; the other returns "Sync already
\* in progress" without running one. Stated for runs without any failure.
C2_ExactlyOneRuns ==
    \A t \in Callers : \A u \in cyc[t].rivals :
        (pc[t] = "done" /\ pc[u] = "done" /\ env = 0) =>
            /\ cyc[t].ran # cyc[u].ran
            /\ ~cyc[t].ran => result[t] = "Sync already in progress"
            /\ ~cyc[u].ran => result[u] = "Sync already in progress"

\* The task has planned and is executing, or has just finished, its cycle.
Planned(t) == pc[t] \in {"exec", "commit", "sync_end"}

\* C3 (as claimed, idempotence): after a cycle that listed the drive,
\* executed every action successfully and was followed by no change of a
\* local or remote file, the plan of the next cycle is empty, whatever the
\* time. Stated for a next cycle whose own listing succeeds.
C3_Idempotent ==
    \A t \in Tasks :
        (Planned(t) /\ cyc[t].after_settled /\ cyc[t].scan_ok /\ quiet = "cycle")
            => cyc[t].actions = <<>>

\* The actions of a plan that concern path p, in plan order.
ActionsFor(acts, p) == SelectSeq(acts, LAMBDA a : a.path = p)

\* Path p is in the three snapshots of the cycle, changed locally and
\* modified remotely after the catalog row was written.
BothChanged(c, p) ==
    /\ c.local_files[p].present /\ c.remote_files[p].present /\ c.stored_files[p].present
    /\ c.local_files[p].hash # c.stored_files[p].hash
    /\ c.remote_files[p].last_modified > c.stored_files[p].last_synced

\* C4 (as claimed, local wins in the planner): for a path changed on both
\* sides the plan holds exactly one action, an Upload, and no Download.
C4_LocalWinsPlan ==
    \A t \in Tasks : \A p \in Paths :
        (Planned(t) /\ BothChanged(cyc[t], p))
            => ActionsFor(cyc[t].actions, p) = <<Upload(p)>>

\* C5 (as claimed, local wins at the end): after a cycle in which every
\* action succeeded and nothing else changed the files, a path that had
\* changed on both sides still holds the user's bytes locally, its catalog
\* hash is the hash of those bytes, and no download of it was counted.
C5_LocalWinsEnd ==
    \A t \in Tasks : \A p \in Paths :
        (pc[t] = "return" /\ quiet = "settled" /\ BothChanged(cyc[t], p)) =>
            /\ local[p] # 0
            /\ Sha256(local[p]) = cyc[t].local_files[p].hash
            /\ files[p].present
            /\ files[p].hash = cyc[t].local_files[p].hash
            /\ \A k \in 1..Len(cyc[t].attempted) :
                   cyc[t].attempted[k].action # Download(p)

\* A step of the engine removes nothing but a row of "files", and that only
\* in the RemoveFromDatabase arm.
EngineKeepsFiles ==
    (\E t \in Tasks : Engine(t)) =>
        /\ \A p \in Paths : local[p] # 0 => local'[p] # 0
        /\ \A p \in Paths : remote[p].present => remote'[p].present
        /\ \A p \in Paths : (files[p].present /\ ~files'[p].present)
                                => \E t \in Tasks : ExecRemove(t)

ActionErrs(t) ==
    /\ Len(cyc'[t].attempted) = Len(cyc[t].attempted) + 1
    /\ ~cyc'[t].attempted[Len(cyc'[t].attempted)].ok

\* C7 (as claimed): whenever execute_sync_action returns an error for an
\* action on path p, whichever step failed, the catalog row of p is the
\* same after the action as before it.
C7_FailedActionKeepsRow ==
    [][\A t \in Tasks :
          ActionErrs(t) => files'[CurrentAction(t).path] = files[CurrentAction(t).path]]_vars

\* The texts of the errors of the failed actions, in order.
RECURSIVE ErrorsOf(_)
ErrorsOf(att) ==
    IF att = <<>> THEN <<>>
    ELSE LET e == att[Len(att)]
             rest == ErrorsOf(SubSeq(att, 1, Len(att) - 1))
         IN IF e.ok THEN rest ELSE Append(rest, e.error)

\* C8 (failure isolation): the actions are attempted in plan order and none
\* is skipped after a failure; each failure appends its text to sync_errors;
\* the loop ends only when every action of the plan has been attempted.
C8_FailureIsolation ==
    \A t \in Tasks :
        (Planned(t) /\ cyc[t].actions # <<>>) =>
            /\ Len(cyc[t].attempted) = cyc[t].i - 1
            /\ \A k \in 1..Len(cyc[t].attempted) :
                   cyc[t].attempted[k].action = cyc[t].actions[k]
            /\ status.sync_errors = ErrorsOf(cyc[t].attempted)
            /\ pc[t] = "sync_end" => Len(cyc[t].attempted) = Len(cyc[t].actions)

\* The first action of a plan failed and a later one was attempted.
C8_Witness ==
    \E t \in Tasks :
        /\ pc[t] = "sync_end"
        /\ Len(cyc[t].attempted) >= 2
        /\ ~cyc[t].attempted[1].ok
        /\ cyc[t].attempted[2].ok
        /\ Len(status.sync_errors) = 1

\* The value of the column "action" for each kind of SyncAction.
LogName(kind) ==
    CASE kind = "Upload" -> "upload"
      [] kind = "Download" -> "download"
      [] kind = "RemoveFromDatabase" -> "remove_from_db"

\* The audit log itself accepted every write of the cycle so far.
LogWritable(c) ==
    \A k \in 1..Len(c.attempted) : c.attempted[k].error # "log write failed"

\* C9 (as claimed, audit completeness): between two actions of a cycle, as
\* long as sync_log itself accepts writes, the rows appended to sync_log
\* since the cycle began are, one for one, the actions attempted: "success"
\* for a success, "failed" with the text of the error for a failure.
C9_AuditComplete ==
    \A t \in Tasks :
        (pc[t] \in {"exec", "sync_end"} /\ LogWritable(cyc[t])) =>
            LET att == cyc[t].attempted
                rows == SubSeq(sync_log, cyc[t].log_start + 1, Len(sync_log))
            IN /\ Len(rows) = Len(att)
               /\ \A k \in 1..Len(att) :
                      /\ rows[k].action = LogName(att[k].action.kind)
                      /\ rows[k].file_path = att[k].action.path
                      /\ rows[k].status = IF att[k].ok THEN "success" ELSE "failed"
                      /\ rows[k].error = IF att[k].ok THEN <<>> ELSE <<att[k].error>>

\* C10 (as claimed): sync() returns Ok whenever perform_sync ran to
\* completion, even if actions failed or an append to sync_log failed.
C10_CompletedCycleReturnsOk ==
    \A t \in Tasks :
        (pc[t] = "return" /\ cyc[t].sync_result = "Ok") => result[t] = "Ok"

\* No call made by the engine fails to return by unwinding its task.
NoPanic == \A t \in Tasks : pc[t] # "panicked"

\* sync() of task t has just come back from a cycle that it closed.
CycleEnded(t) ==
    /\ pc[t] = "return"
    /\ cyc[t].ran
    /\ ~status.is_syncing
    /\ status.last_sync # NoneTime
    /\ status.sync_progress = 100

\* C11 (cycle completion): if every scan, remote call and catalog call
\* returns, every cycle that has set is_syncing eventually ends, with
\* is_syncing false, last_sync set and sync_progress 1.0, whether
\* perform_sync succeeded or failed.
C11_CycleCompletes ==
    ([]NoPanic) => \A t \in Tasks : (InCycle(t) ~> CycleEnded(t))

\* A cycle whose perform_sync failed has ended.
C11_Witness ==
    \E t \in Tasks : CycleEnded(t) /\ cyc[t].sync_result \notin {"Ok", "none"}

\* The step in which task t comes out of determine_sync_actions.
Plans(t) == pc[t] = "plan" /\ pc'[t] # "plan"

\* The actions of a plan, as a set.
ActionSet(acts) == {acts[k] : k \in 1..Len(acts)}

\* C12 (as claimed): the plan of a cycle whose remote scan failed holds no
\* Download and no RemoveFromDatabase for a path that exists on the drive,
\* and an Upload for every local file absent from the catalog.
C12_FailedScanSparesRemote ==
    [][\A t \in Tasks :
          (Plans(t) /\ ~cyc[t].scan_ok) =>
              /\ \A a \in ActionSet(cyc'[t].actions) :
                     remote[a.path].present
                         => a.kind \notin {"Download", "RemoveFromDatabase"}
              /\ \A p \in Paths :
                     (cyc[t].local_files[p].present /\ ~cyc[t].stored_files[p].present)
                         => Upload(p) \in ActionSet(cyc'[t].actions)]_vars

\* Positions of a cycle after scan_remote_files has returned.
ScannedPcs == {"load_db", "plan", "exec", "commit", "sync_end"}

\* C13 (as claimed): a cycle whose remote scan failed goes on with an empty
\* remote snapshot, and sync_errors holds a string reporting the failure.
C13_ScanFailureReported ==
    \A t \in Tasks :
        (pc[t] \in ScannedPcs /\ ~cyc[t].scan_ok) =>
            /\ \A p \in Paths : ~cyc[t].remote_files[p].present
            /\ \E k \in 1..Len(status.sync_errors) :
                   status.sync_errors[k] = "Failed to scan remote files"

\* The paths named by the plans, the rows of "files" and the rows of
\* sync_log.
RecordedPaths ==
    UNION {{a.path : a \in ActionSet(cyc[t].actions)} : t \in Tasks}
    \cup {p \in Paths : files[p].present}
    \cup {sync_log[k].file_path : k \in 1..Len(sync_log)}

\* C14 (as claimed, hidden-path filter): no path whose leading segment
\* begins with '.' is in a planned action, a catalog row or a log row,
\* whether it comes from the local tree or from the remote listing.
C14_HiddenFiltered == \A p \in RecordedPaths : ~StartsWithDot(p)

\* Uploads come first, then downloads, then removals.
KindRank(kind) ==
    CASE kind = "Upload" -> 1
      [] kind = "Download" -> 2
      [] kind = "RemoveFromDatabase" -> 3

\* C15 (action-kind ordering): in every plan the Uploads precede the
\* Downloads and the Downloads the RemoveFromDatabase, and the executor
\* follows the plan: when an action begins, every action of an earlier kind
\* has been executed, successfully or not.
C15_KindOrder ==
    \A t \in Tasks :
        Planned(t) =>
            LET acts == cyc[t].actions
                att == cyc[t].attempted
            IN /\ \A j, k \in 1..Len(acts) :
                      j < k => KindRank(acts[j].kind) <= KindRank(acts[k].kind)
               /\ pc[t] \in {"exec", "commit"} =>
                      \A j \in 1..Len(acts) :
                          KindRank(acts[j].kind) < KindRank(CurrentAction(t).kind)
                              => j <= Len(att) /\ att[j].action = acts[j]

\* A Download is beginning after an Upload of the same plan was executed.
C15_Witness ==
    \E t \in Tasks :
        /\ pc[t] = "exec"
        /\ CurrentAction(t).kind = "Download"
        /\ \E j \in 1..Len(cyc[t].attempted) : cyc[t].attempted[j].action.kind = "Upload"

\* Byte order of the paths of the model.
PathRank(p) ==
    CASE p = ".c" -> 0
      [] p = "a" -> 1
      [] p = "b" -> 2

\* C16 (as claimed, path ordering): within the Upload block and within the
\* Download block of a plan the actions are in path order.
C16_PathOrder ==
    \A t \in Tasks :
        Planned(t) =>
            \A j, k \in 1..Len(cyc[t].actions) :
                LET a == cyc[t].actions[j]
                    b == cyc[t].actions[k]
                IN (j < k /\ a.kind = b.kind /\ a.kind \in {"Upload", "Download"})
                       => PathRank(a.path) < PathRank(b.path)

\* C17 (as claimed, remote lost): a path of the local snapshot and of the
\* catalog that a successful listing of the drive does not hold is
\* uploaded, also when its local hash equals the catalog hash.
C17_RemoteLostUploads ==
    \A t \in Tasks : \A p \in Paths :
        (/\ Planned(t)
         /\ cyc[t].scan_ok
         /\ cyc[t].local_files[p].present
         /\ cyc[t].stored_files[p].present
         /\ ~cyc[t].remote_files[p].present)
            => Upload(p) \in ActionSet(cyc[t].actions)

\* Path p is in the catalog and in neither snapshot of the cycle.
BothAbsent(c, p) ==
    /\ c.stored_files[p].present
    /\ ~c.local_files[p].present
    /\ ~c.remote_files[p].present

\* C18: RemoveFromDatabase(p) is planned if and only if p is in the catalog
\* and absent from the local and the remote snapshot, and it is then the
\* only action planned for p.
C18_RemoveIffBothAbsent ==
    \A t \in Tasks : \A p \in Paths :
        Planned(t) =>
            /\ RemoveFromDatabase(p) \in ActionSet(cyc[t].actions) <=> BothAbsent(cyc[t], p)
            /\ BothAbsent(cyc[t], p)
                   => ActionsFor(cyc[t].actions, p) = <<RemoveFromDatabase(p)>>

\* A plan removes the row of one path and does not remove the row of a
\* cataloged path that is missing locally only.
C18_Witness ==
    \E t \in Tasks : \E p, q \in Paths :
        /\ Planned(t)
        /\ BothAbsent(cyc[t], p)
        /\ RemoveFromDatabase(p) \in ActionSet(cyc[t].actions)
        /\ cyc[t].stored_files[q].present
        /\ ~cyc[t].local_files[q].present
        /\ cyc[t].remote_files[q].present

\* determine_sync_actions has returned the plan of the cycle of task t
\* (perform_sync did not fail in one of the scans before it).
PlanMade(t) == Planned(t) /\ cyc[t].sync_result \in {"none", "Ok"}

\* C19: a path of the remote snapshot that is absent from the local
\* snapshot gets exactly one action, Download(p), cataloged or not.
C19_RemoteOnlyDownloads ==
    \A t \in Tasks : \A p \in Paths :
        (/\ PlanMade(t)
         /\ cyc[t].remote_files[p].present
         /\ ~cyc[t].local_files[p].present)
            => ActionsFor(cyc[t].actions, p) = <<Download(p)>>

\* A cataloged file deleted locally is being downloaded again.
C19_Witness ==
    \E t \in Tasks : \E p \in Paths :
        /\ pc[t] = "commit"
        /\ CurrentAction(t) = Download(p)
        /\ cyc[t].stored_files[p].present
        /\ ~cyc[t].local_files[p].present
        /\ local[p] # 0

\* C20 (as claimed): a path present locally and remotely but absent from
\* the catalog produces no action, and a later cycle adopts it: once a
\* further cycle has run over unchanged files, the catalog holds its row.
C20_AdoptedLater ==
    \A t \in Tasks : \A p \in Paths :
        /\ (/\ Planned(t)
            /\ cyc[t].local_files[p].present
            /\ cyc[t].remote_files[p].present
            /\ ~cyc[t].stored_files[p].present)
               => ActionsFor(cyc[t].actions, p) = <<>>
        /\ (/\ pc[t] = "return"
            /\ cyc[t].after_settled
            /\ quiet = "settled"
            /\ cyc[t].local_files[p].present
            /\ cyc[t].remote_files[p].present)
               => files[p].present

\* The step ends an execute_sync_action of task t with Ok(()).
ActionSucceeds(t) ==
    /\ Len(cyc'[t].attempted) = Len(cyc[t].attempted) + 1
    /\ cyc'[t].attempted[Len(cyc'[t].attempted)].ok

\* C21: after a successful Upload(p) or Download(p) the row of p holds the
\* hash of the local file as it is when the transfer has finished, the id
\* of the item on the server, and the time of the write as last_synced.
C21_RowAfterTransfer ==
    [][\A t \in Tasks :
          (ActionSucceeds(t) /\ CurrentAction(t).kind \in {"Upload", "Download"}) =>
              LET p == CurrentAction(t).path
              IN files'[p] = FileRecord(Sha256(local'[p]), ItemId(p), now)]_vars

\* An Upload has succeeded on a file that the user rewrote after the scan:
\* the row holds the hash of the new bytes.
C21_Witness ==
    \E t \in Tasks :
        /\ pc[t] \in {"exec", "sync_end"}
        /\ cyc[t].attempted # <<>>
        /\ LET e == cyc[t].attempted[Len(cyc[t].attempted)]
               p == e.action.path
           IN /\ e.ok
              /\ e.action.kind = "Upload"
              /\ files[p].present
              /\ files[p].hash = Sha256(local[p])
              /\ files[p].hash # cyc[t].local_files[p].hash

\* sync() of task t has returned from a cycle that listed the drive and
\* executed every action successfully, while nothing else touched the files.
CleanReturn(t) == pc[t] = "return" /\ cyc[t].ran /\ quiet = "settled"

\* C22 (catalog consistency): after a cycle in which every action
\* succeeded, every path of the catalog has a local file whose hash is the
\* catalog hash, or is present only remotely.
C22_CatalogConsistent ==
    \A t \in Tasks : \A p \in Paths :
        (CleanReturn(t) /\ files[p].present) =>
            \/ local[p] # 0 /\ Sha256(local[p]) = files[p].hash
            \/ local[p] = 0 /\ remote[p].present

\* A cycle that executed actions has ended cleanly with a row in the catalog.
C22_Witness ==
    \E t \in Tasks : \E p \in Paths :
        /\ CleanReturn(t)
        /\ cyc[t].attempted # <<>>
        /\ files[p].present

\* Number of successful actions of the given kind among the attempted ones.
Succeeded(att, kind) ==
    Cardinality({k \in 1..Len(att) : att[k].ok /\ att[k].action.kind = kind})

\* C23 (as claimed): the counters are reset when a cycle starts, so after a
\* cycle they count the successful actions of that cycle alone. Stated for
\* cycles that ran to completion and in which sync_log accepted every write.
C23_CountersPerCycle ==
    \A t \in Tasks :
        (/\ pc[t] = "return"
         /\ cyc[t].sync_result = "Ok"
         /\ LogWritable(cyc[t])) =>
            /\ status.files_uploaded = Succeeded(cyc[t].attempted, "Upload")
            /\ status.files_downloaded = Succeeded(cyc[t].attempted, "Download")
            /\ status.files_deleted = Succeeded(cyc[t].attempted, "RemoveFromDatabase")

\* C24 (log monotonicity): no step updates or deletes a row of sync_log,
\* the number of rows never decreases, and the timestamps of the rows are
\* non-decreasing in insertion order.
C24_LogAppendOnly ==
    /\ [][/\ Len(sync_log') >= Len(sync_log)
          /\ SubSeq(sync_log', 1, Len(sync_log)) = sync_log]_vars
    /\ [](\A j, k \in 1..Len(sync_log) :
              j < k => sync_log[j].timestamp <= sync_log[k].timestamp)

\* Rows have been appended before and after the clock moved.
C24_Witness ==
    /\ Len(sync_log) >= 2
    /\ sync_log[1].timestamp < sync_log[Len(sync_log)].timestamp

\* C25 (as claimed, catalog lifecycle): a row of path p is created or
\* changed only by a successful Upload(p) or Download(p) and removed only
\* by a successful RemoveFromDatabase(p); every other step, scans and
\* planning included, leaves it as it is.
C25_CatalogFrame ==
    [][\A p \in Paths :
          files'[p] # files[p] =>
              \E t \in Tasks :
                  /\ ActionSucceeds(t)
                  /\ CurrentAction(t).path = p
                  /\ IF files'[p].present
                     THEN CurrentAction(t).kind \in {"Upload", "Download"}
                     ELSE CurrentAction(t).kind = "RemoveFromDatabase"]_vars

BetweenTestAndSet(t) == pc[t] = "sync_begin"

\* C27: entry to a cycle is an atomic test-and-set: the read of is_syncing
\* and the write that sets it happen inside one critical section of the
\* status lock, so that no task is ever between the test and the set with
\* the status lock released.
C27_AtomicTestAndSet ==
    \A t \in Tasks : ~BetweenTestAndSet(t)

C29_AuthErrorStopsTransfers ==
    \A t \in Tasks :
        LET att == cyc[t].attempted
        IN \A j \in 1..Len(att) : \A k \in 1..Len(att) :
               (j < k /\ ~att[j].ok /\ att[j].error = AuthError)
                   => att[k].action.kind = "RemoveFromDatabase"

\* C30: the scheduler loop ends only between cycles: when start_auto_sync is
\* ended, the task is not inside a cycle, so that a cycle in progress has run
\* to completion first.
C30_CycleRunsToCompletion ==
    [][(pc[AutoTask] # "dropped" /\ pc'[AutoTask] = "dropped")
          => ~InCycle(AutoTask)]_vars

\* C31: a file whose hashing fails does not abort the local scan: the step
\* that scans the local files ends with the snapshot taken and the cycle
\* going on, or with an error returned, never with the task aborted.
C31_HashFailureSpared ==
    [][\A t \in Tasks : pc[t] = "scan_local" => pc'[t] # "panicked"]_vars

\* The value of sync_progress, in hundredths, that perform_sync has set when
\* the task stands before each of its steps.
Checkpoint(t) ==
    CASE pc[t] = "scan_local" -> {0}
      [] pc[t] = "scan_remote" -> {10}
      [] pc[t] = "load_db" -> {30}
      [] pc[t] = "plan" -> {40}
      [] pc[t] = "exec" -> {50 + (40 * k) \div Len(cyc[t].actions) : k \in 0..(cyc[t].i - 1)}
      [] pc[t] = "commit" -> {50 + (40 * (cyc[t].i - 1)) \div Len(cyc[t].actions)}
      [] OTHER -> 0..100

\* C32: within a cycle sync_progress takes the values 0.0, 0.1, 0.3, 0.4,
\* 0.5, 0.5 + 0.4 * (i / N) and 1.0 at the checkpoints in this order: it
\* never decreases between the start and the end of a cycle and it always
\* lies within [0, 1].
C32_ProgressMonotone ==
    /\ [][(\E t \in Tasks : InCycle(t))
            => status'.sync_progress >= status.sync_progress]_vars
    /\ [](status.sync_progress \in 0..100)
    /\ [](\A t \in Tasks : InCycle(t) => status.sync_progress \in Checkpoint(t))

C32_Witness ==
    \E t \in Tasks :
        /\ pc[t] = "commit"
        /\ Len(cyc[t].actions) = 2
        /\ cyc[t].i = 2
        /\ status.sync_progress = 70

\* C33: after planning, total_files is the number of paths that are in the
\* local snapshot or in the remote snapshot, a path on both sides counted
\* once.
C33_TotalIsUnion ==
    \A t \in Tasks :
        pc[t] \in {"exec", "commit", "sync_end"} /\ PlanMade(t)
            => status.total_files =
                   Cardinality({p \in Paths : cyc[t].local_files[p].present
                                              \/ cyc[t].remote_files[p].present})

\* ------------------------------------------------------------------ history

\* The largest limit the history is asked for.
MaxLimit == 3

\* get_sync_history(limit): SELECT ... ORDER BY timestamp DESC LIMIT limit.
\* The rows are given by their id (their position in the table). SQL leaves
\* the order of rows with equal timestamp open, so the query may return the
\* first limit rows of any order of the table that sorts the timestamps
\* downwards.
get_sync_history(log, limit) ==
    {SubSeq(o, 1, IF limit < Len(log) THEN limit ELSE Len(log)) :
        o \in {o \in Orders(1..Len(log)) :
                 \A i \in 1..Len(log) : \A j \in 1..Len(log) :
                     i < j => log[o[i]].timestamp >= log[o[j]].timestamp}}

\* C34: get_sync_history(limit) returns at most limit rows, newest first: of
\* two returned rows the one appended later comes first, also when both were
\* appended within the same second, and no row appended after a returned row
\* is left out.
C34_HistoryNewestFirst ==
    \A limit \in 1..MaxLimit : \A r \in get_sync_history(sync_log, limit) :
        /\ Len(r) <= limit
        /\ \A i \in 1..Len(r) : \A j \in 1..Len(r) : i < j => r[i] > r[j]
        /\ \A i \in 1..Len(r) : \A k \in 1..Len(sync_log) :
               k > r[i] => \E j \in 1..Len(r) : r[j] = k

\* Task t is about to call the remote API (list_items, upload_file or
\* download_file).
AtApiCall(t) ==
    \/ pc[t] = "scan_remote"
    \/ pc[t] = "exec" /\ CurrentAction(t).kind \in {"Upload", "Download"}

\* Task t is about to acquire the status lock (update_status, or the read of
\* is_syncing).
AtStatusLock(t) ==
    pc[t] \in {"tick", "sync_check", "sync_begin", "scan_local", "scan_remote",
               "load_db", "plan", "exec", "count", "sync_end"}

\* C35: the catalog lock is held only across one catalog call: no task
\* holds it while it calls the remote API or acquires the status lock.
C35_DbLockShort ==
    \A t \in Tasks : cyc[t].db => ~AtApiCall(t) /\ ~AtStatusLock(t)

C35_Witness ==
    \E t \in Tasks :
        /\ cyc[t].db
        /\ pc[t] = "log_locked"
        /\ CurrentAction(t).kind = "Download"
        /\ status.files_downloaded > 0

\* Task t is executing inside sync().
InSync(t) == pc[t] \in {"sync_check", "sync_begin"} \cup CyclePcs

\* C37: is_syncing is false whenever no task is executing inside sync(),
\* however the last cycle ended, so that a later call of sync() is not
\* rejected with "Sync already in progress".
C37_IdleNotSyncing ==
    (\A t \in Tasks : ~InSync(t)) => ~status.is_syncing

\* The observers of the status, and the observer holding the manager with
\* get_status about to return the current SyncStatus.
Observers == {TrayLoop, GuiUpdate}
Snapshot(o) == pc[o] = "get_status"

\* C38: as long as no cycle has aborted abnormally, every snapshot an
\* observer obtains through the SyncManager mutex has is_syncing false, and
\* shows no operation or progress of a running cycle: only the values of
\* before the first cycle or of the end of a cycle.
C38_SnapshotsIdle ==
    \A o \in Observers :
        (NoPanic /\ Snapshot(o))
            => /\ ~status.is_syncing
               /\ status.current_operation \in
                      {<<"Ready">>, <<"Sync completed">>, <<"Sync failed">>}
               /\ status.sync_progress \in {0, 100}

C38_Witness ==
    /\ Snapshot(GuiUpdate)
    /\ NoPanic
    /\ status.current_operation = <<"Sync completed">>
    /\ \E t \in Callers : pc[t] = "lock_mgr"

\* C39: the remote snapshot handed to the planner is all or nothing: the
\* complete listing of the drive, or empty; a listing that fails in a
\* subfolder leaves none of the files listed before the failure in it.
C39_SnapshotAllOrNothing ==
    [][\A t \in Tasks :
          (pc[t] = "scan_remote" /\ pc'[t] = "load_db")
              => cyc'[t].remote_files \in {RemoteSnapshot, [p \in Paths |-> NoItem]}]_vars

C39_Witness ==
    \E t \in Tasks :
        /\ pc[t] = "load_db"
        /\ ~cyc[t].scan_ok
        /\ cyc[t].listed["a"].present
        /\ remote["b"].present
        /\ \A p \in Paths : ~cyc[t].remote_files[p].present

\* The number of chunks of a file of n bytes.
Chunks(n) == (n + ChunkSize - 1) \div ChunkSize

\* C36: resumable upload of a file of at least 4 MiB: the byte ranges sent
\* start at 0, are contiguous and non-overlapping, hold at most 320 KiB each
\* and never pass the last byte of the file; offset grows on every 202, so
\* the loop ends; the upload returns success only on a 200 or 201, and an
\* error when every chunk was answered 202.
C36_ChunkedUpload ==
    /\ [](up.total_size >= SimpleLimit =>
           LET sent == up.sent IN
           /\ \A k \in 1..Len(sent) :
                 /\ sent[k].first <= sent[k].last
                 /\ sent[k].last - sent[k].first + 1 <= ChunkSize
                 /\ sent[k].last <= up.total_size - 1
                 /\ sent[k].first = IF k = 1 THEN 0 ELSE sent[k - 1].last + 1
           /\ Len(sent) <= Chunks(up.total_size)
           /\ up.result = "Ok" =>
                 Len(sent) > 0 /\ sent[Len(sent)].code \in {200, 201}
           /\ (up.phase = "done" /\ Len(sent) > 0
                  /\ \A k \in 1..Len(sent) : sent[k].code = 202) =>
                 up.result = "Upload completed but no final response received")
    /\ [][(up.phase = "chunks" /\ up'.phase = "chunks" /\ up' # up)
             => up'.offset > up.offset]_vars
    /\ <>(up.phase = "done")

C36_Witness ==
    /\ up.total_size = SimpleLimit
    /\ up.phase = "done"
    /\ Len(up.sent) = 13
    /\ \A k \in 1..13 : up.sent[k].code = 202
    /\ up.sent[13].last = SimpleLimit - 1
    /\ up.sent[13].last - up.sent[13].first + 1 < ChunkSize

\* Process p runs as an instance: check_single_instance returned Ok(true)
\* and the process has not exited.
IsInstance(p) == inst[p].pc = "running" /\ inst[p].result = "true"

\* C40: the lock file admits at most one running instance: of two processes
\* that execute check_single_instance, in any interleaving, at most one has
\* got true while the other is still alive.
C40_SingleInstance ==
    \A p \in Pids : \A q \in Pids : (IsInstance(p) /\ IsInstance(q)) => p = q

====
